---- MODULE Spec2Model ----
(***************************************************************************)
(* Model of masterblog (src/app.py): a Flask blog whose handlers run a     *)
(* load / mutate / save cycle against one JSON file, posts.json.           *)
(*                                                                         *)
(* The file is the only shared state.  Every handler is cut into steps at  *)
(* its accesses to the file (each load, the truncating open of save, the   *)
(* write of save), so that concurrent requests interleave as the threads   *)
(* of the web server do.                                                   *)
(***************************************************************************)
EXTENDS Integers, Sequences, FiniteSets, TLC

\* ---------------------------------------------------------------------
\* Bounds of the model
\* ---------------------------------------------------------------------

\* total number of requests served in one behaviour
MaxRequests == 2

\* number of requests that can be in progress at the same time
NumProcs == 2

Procs == 1..NumProcs

\* ---------------------------------------------------------------------
\* Text.  A string is kept as a sequence of runs [c |-> piece, n |->
\* repetitions]: a piece is one of the characters html.escape replaces
\* (& < > " '), or a stretch of text without any of them; adjacent runs
\* have different pieces.  Strings at the length caps (100, 200, 10000
\* characters) stay small this way.
\* ---------------------------------------------------------------------

Run(ch, k) == [c |-> ch, n |-> k]

\* concatenation of two encoded strings
Cat(a, b) ==
    IF a = <<>> THEN b
    ELSE IF b = <<>> THEN a
    ELSE IF a[Len(a)].c = b[1].c
         THEN SubSeq(a, 1, Len(a) - 1)
              \o <<Run(b[1].c, a[Len(a)].n + b[1].n)>>
              \o Tail(b)
         ELSE a \o b

RECURSIVE Str(_)
\* the string made of the given pieces
Str(chars) ==
    IF chars = <<>> THEN <<>>
    ELSE Cat(<<Run(Head(chars), 1)>>, Str(Tail(chars)))

RECURSIVE Repeat(_, _)
Repeat(s, k) == IF k = 0 THEN <<>> ELSE Cat(s, Repeat(s, k - 1))

RECURSIVE TextLen(_)
\* len(s)
TextLen(s) ==
    IF s = <<>> THEN 0 ELSE Head(s).n * Len(Head(s).c) + TextLen(Tail(s))

RECURSIVE Replace(_, _, _)
\* s.replace(ch, rep) for a one-character ch
Replace(s, ch, rep) ==
    IF s = <<>> THEN <<>>
    ELSE LET r == Head(s)
             piece == IF r.c = ch THEN Repeat(rep, r.n) ELSE <<r>>
         IN  Cat(piece, Replace(Tail(s), ch, rep))

\* html.escape(s): & first, then < > " '
escape(s) ==
    LET s1 == Replace(s,  "&",  Str(<<"&", "amp;">>))
        s2 == Replace(s1, "<",  Str(<<"&", "lt;">>))
        s3 == Replace(s2, ">",  Str(<<"&", "gt;">>))
        s4 == Replace(s3, "\"", Str(<<"&", "quot;">>))
        s5 == Replace(s4, "'",  Str(<<"&", "#x27;">>))
    IN  s5

\* ---------------------------------------------------------------------
\* JSON values of the fields of a post.  t is the type json.load gives the
\* value ("str", "int", "bool", "float", "none" for null or a missing key),
\* i its number (True is 1, False is 0) and s its text.
\* ---------------------------------------------------------------------

IntV(k)  == [t |-> "int",   i |-> k, s |-> <<>>]
StrV(x)  == [t |-> "str",   i |-> 0, s |-> x]
BoolV(k) == [t |-> "bool",  i |-> k, s |-> <<>>]
NoneV    == [t |-> "none",  i |-> 0, s |-> <<>>]

\* an element of the top-level list: a JSON object (obj) with the five
\* keys of a post, or anything else (a number, a string, a list)
Post(id, author, title, content, likes) ==
    [obj |-> TRUE, id |-> id, author |-> author, title |-> title,
     content |-> content, likes |-> likes]

NonRecord ==
    [obj |-> FALSE, id |-> NoneV, author |-> NoneV, title |-> NoneV,
     content |-> NoneV, likes |-> NoneV]

\* isinstance(v, str) and isinstance(v, int): bool is a subclass of int
IsStr(v) == v.t = "str"
IsInt(v) == v.t \in {"int", "bool"}

\* ---------------------------------------------------------------------
\* JSON text.  json.dump writes every value as a literal and json.load
\* reads the literals back: a string between quotes with \ and " escaped
\* by a backslash, an int as its decimal digits, True, False and None as
\* true, false and null; a number literal with a fraction is read as a
\* float.
\* ---------------------------------------------------------------------

FloatV(k) == [t |-> "float", i |-> k, s |-> <<>>]

\* the body of a string literal as json.dump writes it: \ becomes \\,
\* then " becomes \"
json_escape(s) ==
    IF \A k \in 1..Len(s) : s[k].c \notin {"\\", "\""} THEN s
    ELSE LET s1 == Replace(s,  "\\", <<Run("\\", 2)>>)
             s2 == Replace(s1, "\"", <<Run("\\", 1), Run("\"", 1)>>)
         IN  s2

RECURSIVE json_unescape(_)
\* the string json.load reads from the body of a string literal, scanned
\* from the left: \\ is \, \" is ", a bare " is not part of a body
json_unescape(t) ==
    IF \A k \in 1..Len(t) : t[k].c \notin {"\\", "\""}
    THEN [ok |-> TRUE, s |-> t]
    ELSE LET r == Head(t) IN
         IF r.c = "\"" THEN [ok |-> FALSE, s |-> <<>>]
         ELSE IF r.c # "\\"
         THEN LET rest == json_unescape(Tail(t))
              IN  [ok |-> rest.ok, s |-> Cat(<<r>>, rest.s)]
         ELSE LET back == IF r.n \div 2 = 0 THEN <<>>
                          ELSE <<Run("\\", r.n \div 2)>>
              IN  IF r.n % 2 = 0
                  THEN LET rest == json_unescape(Tail(t))
                       IN  [ok |-> rest.ok, s |-> Cat(back, rest.s)]
                  ELSE IF Len(t) < 2 \/ t[2].c # "\""
                  THEN [ok |-> FALSE, s |-> <<>>]
                  ELSE LET after == IF t[2].n = 1 THEN Tail(Tail(t))
                                    ELSE <<Run("\"", t[2].n - 1)>>
                                         \o Tail(Tail(t))
                           rest == json_unescape(after)
                       IN  [ok |-> rest.ok,
                            s  |-> Cat(Cat(back, <<Run("\"", 1)>>), rest.s)]

RECURSIVE Decimal(_)
\* the decimal digits of n >= 0, as str(n) writes them
Decimal(n) == IF n < 10 THEN <<n>> ELSE Append(Decimal(n \div 10), n % 10)

RECURSIVE FromDecimal(_)
\* int(digits)
FromDecimal(ds) ==
    IF ds = <<>> THEN 0
    ELSE 10 * FromDecimal(SubSeq(ds, 1, Len(ds) - 1)) + ds[Len(ds)]

\* a literal of the JSON text
Literal(lit, neg, digits, frac, text) ==
    [lit |-> lit, neg |-> neg, digits |-> digits, frac |-> frac, text |-> text]

\* json_dump_value with the test for int put before the test for bool: True
\* and False are written as 1 and 0
json_dump_value_IntBeforeBool(v) ==
    CASE v.t = "str"   -> Literal("string", FALSE, <<>>, FALSE, json_escape(v.s))
      [] v.t \in {"int", "bool"} ->
            Literal("number", v.i < 0, Decimal(IF v.i < 0 THEN -v.i ELSE v.i),
                    FALSE, <<>>)
      [] v.t = "float" -> Literal("number", v.i < 0,
                                  Decimal(IF v.i < 0 THEN -v.i ELSE v.i),
                                  TRUE, <<>>)
      [] OTHER         -> Literal("null", FALSE, <<>>, FALSE, <<>>)

\* json.dump of one value (bool is tested before int)
json_dump_value(v) ==
    CASE v.t = "str"   -> Literal("string", FALSE, <<>>, FALSE, json_escape(v.s))
      [] v.t = "bool"  -> Literal(IF v.i = 1 THEN "true" ELSE "false",
                                  FALSE, <<>>, FALSE, <<>>)
      [] v.t = "int"   -> Literal("number", v.i < 0,
                                  Decimal(IF v.i < 0 THEN -v.i ELSE v.i),
                                  FALSE, <<>>)
      [] v.t = "float" -> Literal("number", v.i < 0,
                                  Decimal(IF v.i < 0 THEN -v.i ELSE v.i),
                                  TRUE, <<>>)
      [] OTHER         -> Literal("null", FALSE, <<>>, FALSE, <<>>)

\* json.load of one literal
json_load_value(l) ==
    CASE l.lit = "string" -> StrV(json_unescape(l.text).s)
      [] l.lit = "true"   -> BoolV(1)
      [] l.lit = "false"  -> BoolV(0)
      [] l.lit = "number" ->
            LET k == IF l.neg THEN -FromDecimal(l.digits)
                     ELSE FromDecimal(l.digits)
            IN  IF l.frac THEN FloatV(k) ELSE IntV(k)
      [] OTHER            -> NoneV

\* json.dump(posts, file, indent=4): the text of a list of posts
json_dump(items) ==
    [k \in 1..Len(items) |->
        [obj     |-> items[k].obj,
         id      |-> json_dump_value(items[k].id),
         author  |-> json_dump_value(items[k].author),
         title   |-> json_dump_value(items[k].title),
         content |-> json_dump_value(items[k].content),
         likes   |-> json_dump_value(items[k].likes)]]

\* json.load(file) of such a text
json_load(text) ==
    [k \in 1..Len(text) |->
        [obj     |-> text[k].obj,
         id      |-> json_load_value(text[k].id),
         author  |-> json_load_value(text[k].author),
         title   |-> json_load_value(text[k].title),
         content |-> json_load_value(text[k].content),
         likes   |-> json_load_value(text[k].likes)]]

\* ---------------------------------------------------------------------
\* The file posts.json
\*   absent      the file does not exist
\*   unreadable  the file exists and open(..., 'r') is refused
\*   garbage     the content is not a JSON document (an empty or a
\*               partly written file included)
\*   nonlist     a JSON document whose top level is not a list
\*   list        a JSON list, items its elements as json.load reads them
\* ---------------------------------------------------------------------

File(kind, items) == [kind |-> kind, items |-> items]

\* the fallback of load_posts
DefaultPosts ==
    << Post(IntV(1), StrV(Str(<<"John Doe">>)), StrV(Str(<<"First Post">>)),
            StrV(Str(<<"This is my first post.">>)), IntV(0)),
       Post(IntV(2), StrV(Str(<<"Jane Doe">>)), StrV(Str(<<"Second Post">>)),
            StrV(Str(<<"This is another post.">>)), IntV(0)) >>

\* the outcome of the validation loop of load_posts on the elements of the
\* list, in order: "ok", "ValueError" (a key missing or of the wrong type),
\* or "AttributeError" (post.get on an element that is not an object)
RECURSIVE ValidatePosts(_)
ValidatePosts(items) ==
    IF items = <<>> THEN "ok"
    ELSE LET post == Head(items) IN
         IF ~post.obj THEN "AttributeError"
         ELSE IF ~(IsStr(post.author) /\ IsStr(post.title) /\ IsStr(post.content))
              THEN "ValueError"
         ELSE IF ~IsInt(post.id) THEN "ValueError"
         ELSE IF ~IsInt(post.likes) THEN "ValueError"
         ELSE ValidatePosts(Tail(items))

\* load_posts(): [raised |-> the exception that escapes ("" when none),
\*                posts  |-> the returned list]
load_posts(file) ==
    LET outcome ==
            CASE file.kind = "absent"     -> "FileNotFoundError"
              [] file.kind = "unreadable" -> "PermissionError"
              [] file.kind = "garbage"    -> "JSONDecodeError"
              [] file.kind = "nonlist"    -> "ValueError"
              [] OTHER                    -> ValidatePosts(file.items)
    IN  IF outcome = "ok"
        THEN [raised |-> "", posts |-> file.items]
        ELSE IF outcome \in {"FileNotFoundError", "JSONDecodeError", "ValueError"}
        THEN [raised |-> "", posts |-> DefaultPosts]
        ELSE [raised |-> outcome, posts |-> <<>>]

\* ---------------------------------------------------------------------
\* Pure helpers of the handlers
\* ---------------------------------------------------------------------

MaxAuthor  == 100
MaxTitle   == 200
MaxContent == 10000

\* validate_post_data with the two tests in the other order: the lengths
\* first, then the empty fields
validate_post_data_CapsFirst(author, title, content) ==
    IF \/ TextLen(author)  > MaxAuthor
       \/ TextLen(title)   > MaxTitle
       \/ TextLen(content) > MaxContent
    THEN [ok |-> FALSE, error |-> "Input exceeds maximum length."]
    ELSE IF author = <<>> \/ title = <<>> \/ content = <<>>
    THEN [ok |-> FALSE, error |-> "All fields are required."]
    ELSE [ok |-> TRUE, error |-> ""]

\* validate_post_data(author, title, content)
validate_post_data(author, title, content) ==
    IF author = <<>> \/ title = <<>> \/ content = <<>>
    THEN [ok |-> FALSE, error |-> "All fields are required."]
    ELSE IF \/ TextLen(author)  > MaxAuthor
            \/ TextLen(title)   > MaxTitle
            \/ TextLen(content) > MaxContent
    THEN [ok |-> FALSE, error |-> "Input exceeds maximum length."]
    ELSE [ok |-> TRUE, error |-> ""]

RECURSIVE FirstWithId(_, _)
\* the index of the first post whose id equals post_id, 0 when there is
\* none (the scan "for post in posts: if post['id'] == post_id")
FirstWithId(items, post_id) ==
    IF items = <<>> THEN 0
    ELSE IF Head(items).id.i = post_id THEN 1
    ELSE LET k == FirstWithId(Tail(items), post_id)
         IN  IF k = 0 THEN 0 ELSE k + 1

\* fetch_post_by_id(post_id): None is [found |-> FALSE]
fetch_post_by_id(file, post_id) ==
    LET l == load_posts(file)
        k == FirstWithId(l.posts, post_id)
    IN  [raised |-> l.raised,
         found  |-> l.raised = "" /\ k > 0,
         post   |-> IF l.raised = "" /\ k > 0 THEN l.posts[k] ELSE NonRecord]

RECURSIVE MaxId(_)
\* max([post['id'] for post in posts], default=0)
MaxId(items) ==
    IF items = <<>> THEN 0
    ELSE IF Len(items) = 1 THEN Head(items).id.i
    ELSE LET m == MaxId(Tail(items))
         IN  IF Head(items).id.i >= m THEN Head(items).id.i ELSE m

\* AddPost with the new id taken from the number of posts
AddPost_IdFromCount(items, author, title, content) ==
    Append(items, Post(IntV(Len(items) + 1),
                       StrV(author), StrV(title), StrV(content), IntV(0)))

\* AddPost with the "likes" key of the new post forgotten
AddPost_NoLikes(items, author, title, content) ==
    Append(items, Post(IntV(MaxId(items) + 1),
                       StrV(author), StrV(title), StrV(content), NoneV))

\* AddPost with the increment of the id forgotten
AddPost_NoIncrement(items, author, title, content) ==
    Append(items, Post(IntV(MaxId(items)),
                       StrV(author), StrV(title), StrV(content), IntV(0)))

\* AddPost with the new post put in front (insert(0, ...) for append)
AddPost_Prepend(items, author, title, content) ==
    <<Post(IntV(MaxId(items) + 1),
           StrV(author), StrV(title), StrV(content), IntV(0))>> \o items

\* add: new_id = max id + 1, the new post appended with likes 0
AddPost(items, author, title, content) ==
    Append(items, Post(IntV(MaxId(items) + 1),
                       StrV(author), StrV(title), StrV(content), IntV(0)))

RECURSIVE SelectSeqNotId(_, _)
\* delete: [post for post in posts if post['id'] != post_id]
SelectSeqNotId(items, post_id) ==
    IF items = <<>> THEN <<>>
    ELSE IF Head(items).id.i # post_id
         THEN <<Head(items)>> \o SelectSeqNotId(Tail(items), post_id)
         ELSE SelectSeqNotId(Tail(items), post_id)

\* DeletePost taking the id for the position of the post in the list
DeletePost_ByIndex(items, post_id) ==
    IF post_id \in 1..Len(items)
    THEN SubSeq(items, 1, post_id - 1) \o SubSeq(items, post_id + 1, Len(items))
    ELSE items

DeletePost(items, post_id) == SelectSeqNotId(items, post_id)

\* UpdatePost replacing the post by a fresh one, likes back at 0
UpdatePost_ResetLikes(items, post_id, author, title, content) ==
    LET k == FirstWithId(items, post_id)
    IN  IF k = 0 THEN items
        ELSE [items EXCEPT ![k] =
                 Post(@.id, StrV(author), StrV(title), StrV(content), IntV(0))]

\* update: the first post with the id gets the three fields, then break
UpdatePost(items, post_id, author, title, content) ==
    LET k == FirstWithId(items, post_id)
    IN  IF k = 0 THEN items
        ELSE [items EXCEPT ![k] =
                 [@ EXCEPT !.author = StrV(author), !.title = StrV(title),
                           !.content = StrV(content)]]

\* LikePost storing 1 instead of likes + 1
LikePost_SetOne(items, post_id) ==
    LET k == FirstWithId(items, post_id)
    IN  IF k = 0 THEN items
        ELSE [items EXCEPT ![k] = [@ EXCEPT !.likes = IntV(1)]]

\* LikePost without the test of the id: every post gets likes + 1
LikePost_AllPosts(items, post_id) ==
    [k \in 1..Len(items) |-> [items[k] EXCEPT !.likes = IntV(@.i + 1)]]

\* like: the first post with the id gets likes + 1, then break
LikePost(items, post_id) ==
    LET k == FirstWithId(items, post_id)
    IN  IF k = 0 THEN items
        ELSE [items EXCEPT ![k] = [@ EXCEPT !.likes = IntV(@.i + 1)]]

\* ---------------------------------------------------------------------
\* Requests
\* ---------------------------------------------------------------------

\* the ids that requests name
ReqIds == {2, 3}

Form(author, title, content) ==
    [author |-> author, title |-> title, content |-> content]

NoForm == Form(<<>>, <<>>, <<>>)

\* the form fields as submitted (before html.escape)
Forms ==
    { Form(Str(<<"a", "<">>), Str(<<"&">>), Str(<<"c">>)),
      Form(Str(<<"a">>), <<>>, Str(<<"c">>)),
      Form(<<Run("a", MaxAuthor + 1)>>, Str(<<"t">>), Str(<<"c">>)) }

Req(op, method, post_id, form) ==
    [op |-> op, method |-> method, id |-> post_id, form |-> form]

NoReq == Req("none", "GET", 0, NoForm)

\* what a handler returns: the status, the template or redirect target,
\* the message of error.html, and the exception when one escapes
Response(status, body, message, raised) ==
    [status |-> status, body |-> body, message |-> message, raised |-> raised]

NoResponse == Response(0, "", "", "")
Redirect   == Response(302, "index", "", "")
Render(t)  == Response(200, t, "", "")
Error(status, message) == Response(status, "error.html", message, "")
Unhandled(exc) == Response(500, "", "", exc)

\* ---------------------------------------------------------------------
\* State
\* ---------------------------------------------------------------------

VARIABLES
    storage,    \* posts.json
    pc,         \* where each worker is in the handler of its request
    req,        \* the request the worker serves
    posts,      \* the handler's local list `posts`
    loaded,     \* `posts` as load_posts() returned it, before the handler
                \* changed it
    post,       \* the handler's local `post` (result of fetch_post_by_id)
    nreq,       \* requests arrived so far
    \* history, read by the properties only
    initial,    \* posts.json at start-up
    pre,        \* posts.json when the worker's request arrived
    alone,      \* no other request has been in progress since the
                \* worker's request arrived
    prev,       \* the request that finished right before the worker's
                \* arrived, if it was saved, the two did not overlap any
                \* other, and it was the same request or a delete before
                \* an add
    lastWrite,  \* the latest save that succeeded: its request and the list
                \* its handler had loaded
    last,       \* the request that returned in the latest step, with its
                \* response and the locals of its handler (NoLast when
                \* the latest step was not the return of a request)
    addRun      \* k >= 0: all requests so far were k successful adds, one
                \* after another; -1 otherwise

vars == <<storage, pc, req, posts, loaded, post, nreq,
          initial, pre, alone, prev, lastWrite, last, addRun>>

NoPost == [found |-> FALSE, post |-> NonRecord]

NoFile == File("absent", <<>>)

NoPrev == [req |-> NoReq, status |-> 0]

NoWrite == [req |-> NoReq, loaded |-> <<>>]

NoLast ==
    [req |-> NoReq, result |-> NoResponse, alone |-> FALSE, pre |-> NoFile,
     prev |-> NoPrev, posts |-> <<>>, loaded |-> <<>>, post |-> NoPost,
     over |-> NoWrite]

\* a post with short texts, for the files the program starts on
P(id, likes) ==
    Post(IntV(id), StrV(Str(<<"x">>)), StrV(Str(<<"y">>)), StrV(Str(<<"z">>)),
         IntV(likes))

\* the contents of posts.json the program may find at start-up (a file
\* that is not a JSON document is what an interrupted save leaves behind,
\* see save_open and save_write)
InitFiles ==
    { File("absent", <<>>),
      File("unreadable", <<>>),
      File("list", <<>>),
      File("list", <<P(1, 0), P(2, 0), P(3, 0)>>),
      File("list", <<P(3, 1), P(2, 0)>>),
      \* what a delete of post 2 leaves of the first list
      File("list", <<P(1, 0), P(3, 0)>>),
      \* an element that is not an object
      File("list", <<P(1, 0), NonRecord>>),
      \* a post whose id is a string and whose likes are missing
      File("list", <<P(1, 0), [P(2, 0) EXCEPT !.id = StrV(Str(<<"2">>)),
                                              !.likes = NoneV]>>) }

Init ==
    /\ storage \in InitFiles
    /\ initial = storage
    /\ pc = [p \in Procs |-> "done"]
    /\ req = [p \in Procs |-> NoReq]
    /\ posts = [p \in Procs |-> <<>>]
    /\ loaded = [p \in Procs |-> <<>>]
    /\ post = [p \in Procs |-> NoPost]
    /\ nreq = 0
    /\ pre = [p \in Procs |-> NoFile]
    /\ alone = [p \in Procs |-> FALSE]
    /\ prev = [p \in Procs |-> NoPrev]
    /\ lastWrite = NoWrite
    /\ last = NoLast
    /\ addRun = 0

\* no other worker is serving a request
Idle(p) == \A q \in Procs \ {p} : pc[q] = "done"

\* a request can arrive at worker p: it is the free worker with the least
\* number
Admit(p) ==
    /\ pc[p] = "done"
    /\ \A q \in Procs : q < p => pc[q] # "done"
    /\ nreq < MaxRequests

\* prev for the request r that arrives at worker p
ArrivePrev(p, r) ==
    IF /\ Idle(p) /\ last.alone /\ last.result.status = 302
       /\ \/ last.req = r
          \/ last.req.op = "delete" /\ r.op = "add"
    THEN [req |-> last.req, status |-> 302]
    ELSE NoPrev

\* the request r arrives at worker p and its handler returns res at its
\* first access to the file, with `posts` and `post` as given
ReturnFirst(p, r, res, ps, po) ==
    /\ Admit(p)
    /\ nreq' = nreq + 1
    /\ alone' = [q \in Procs |-> FALSE]
    /\ last' = [req |-> r, result |-> res, alone |-> Idle(p),
                pre |-> storage, prev |-> ArrivePrev(p, r), posts |-> ps,
                loaded |-> ps, post |-> po, over |-> NoWrite]
    /\ addRun' = -1
    /\ UNCHANGED <<storage, pc, req, posts, loaded, post, initial, pre, prev,
                   lastWrite>>

\* the request r arrives at worker p and its handler goes on to its next
\* access to the file, with `post` as given
GotoFirst(p, r, label, po) ==
    /\ Admit(p)
    /\ nreq' = nreq + 1
    /\ pc' = [pc EXCEPT ![p] = label]
    /\ req' = [req EXCEPT ![p] = r]
    /\ post' = [post EXCEPT ![p] = po]
    /\ pre' = [pre EXCEPT ![p] = storage]
    /\ alone' = [q \in Procs |-> q = p /\ Idle(p)]
    /\ prev' = [prev EXCEPT ![p] = ArrivePrev(p, r)]
    /\ addRun' = IF addRun >= 0 /\ Idle(p) /\ r.op = "add" THEN addRun ELSE -1
    /\ last' = NoLast
    /\ UNCHANGED <<storage, posts, loaded, initial, lastWrite>>

\* the handler at worker p returns res; its locals are gone, `last` keeps
\* them for the properties (ps and ld its `posts`, as changed and as
\* loaded; ov the save its own save has overwritten, if that was a save
\* of the same request on the same loaded list)
Return(p, res, ps, ld, ov) ==
    /\ last' = [req |-> req[p], result |-> res, alone |-> alone[p],
                pre |-> pre[p], prev |-> prev[p], posts |-> ps,
                loaded |-> ld, post |-> post[p], over |-> ov]
    /\ addRun' = IF /\ addRun >= 0 /\ alone[p] /\ res.status = 302
                    /\ req[p].op = "add"
                 THEN addRun + 1 ELSE -1
    /\ pc' = [pc EXCEPT ![p] = "done"]
    /\ req' = [req EXCEPT ![p] = NoReq]
    /\ posts' = [posts EXCEPT ![p] = <<>>]
    /\ loaded' = [loaded EXCEPT ![p] = <<>>]
    /\ post' = [post EXCEPT ![p] = NoPost]
    /\ pre' = [pre EXCEPT ![p] = NoFile]
    /\ alone' = [alone EXCEPT ![p] = FALSE]
    /\ prev' = [prev EXCEPT ![p] = NoPrev]
    /\ UNCHANGED <<nreq, initial>>

\* the handler at worker p has loaded ld, changed it to ps, and goes on
\* to save
GotoSave(p, ps, ld) ==
    /\ pc' = [pc EXCEPT ![p] = "save_open"]
    /\ posts' = [posts EXCEPT ![p] = ps]
    /\ loaded' = [loaded EXCEPT ![p] = ld]
    /\ last' = NoLast
    /\ UNCHANGED <<storage, req, post, nreq, initial, pre, alone, prev,
                   lastWrite, addRun>>

\* index(): load, render
index(p) ==
    /\ Admit(p)
    /\ LET r == Req("index", "GET", 0, NoForm)
           l == load_posts(storage)
       IN  IF l.raised # ""
           THEN ReturnFirst(p, r, Unhandled(l.raised), <<>>, NoPost)
           ELSE ReturnFirst(p, r, Render("index.html"), l.posts, NoPost)

\* add(), POST: escapes and validates the fields (GET only renders the
\* form and does not come near the file)
add(p, form) ==
    /\ Admit(p)
    /\ LET r == Req("add", "POST", 0, form)
           v == validate_post_data(escape(form.author), escape(form.title),
                                   escape(form.content))
       IN  IF ~v.ok THEN ReturnFirst(p, r, Error(400, v.error), <<>>, NoPost)
           ELSE GotoFirst(p, r, "add_load", NoPost)

\* add(): load, append the new post
add_load(p) ==
    /\ pc[p] = "add_load"
    /\ LET l == load_posts(storage) IN
       IF l.raised # ""
       THEN /\ Return(p, Unhandled(l.raised), <<>>, <<>>, NoWrite)
            /\ UNCHANGED <<storage, lastWrite>>
       ELSE GotoSave(p, AddPost(l.posts, escape(req[p].form.author),
                                escape(req[p].form.title),
                                escape(req[p].form.content)),
                     l.posts)

\* delete(): the existence check, a load of its own
delete(p, post_id) ==
    /\ Admit(p)
    /\ LET r == Req("delete", "POST", post_id, NoForm)
           f == fetch_post_by_id(storage, post_id)
       IN  IF f.raised # ""
           THEN ReturnFirst(p, r, Unhandled(f.raised), <<>>, NoPost)
           ELSE IF ~f.found
           THEN ReturnFirst(p, r, Error(404, "Post not found"), <<>>, NoPost)
           ELSE GotoFirst(p, r, "delete_load", NoPost)

\* delete(): the second load, and the filter
delete_load(p) ==
    /\ pc[p] = "delete_load"
    /\ LET l == load_posts(storage) IN
       IF l.raised # ""
       THEN /\ Return(p, Unhandled(l.raised), <<>>, <<>>, NoWrite)
            /\ UNCHANGED <<storage, lastWrite>>
       ELSE GotoSave(p, DeletePost(l.posts, req[p].id), l.posts)

\* update(): the existence check; GET renders the form with the post,
\* POST escapes and validates the fields
update(p, post_id, method, form) ==
    /\ Admit(p)
    /\ LET r == Req("update", method, post_id, form)
           f == fetch_post_by_id(storage, post_id)
           v == validate_post_data(escape(form.author), escape(form.title),
                                   escape(form.content))
           po == [found |-> TRUE, post |-> f.post]
       IN  IF f.raised # ""
           THEN ReturnFirst(p, r, Unhandled(f.raised), <<>>, NoPost)
           ELSE IF ~f.found
           THEN ReturnFirst(p, r, Error(404, "Post not found"), <<>>, NoPost)
           ELSE IF method = "GET"
           THEN ReturnFirst(p, r, Render("update.html"), <<>>, po)
           ELSE IF ~v.ok
           THEN ReturnFirst(p, r, Error(400, v.error), <<>>, po)
           ELSE GotoFirst(p, r, "update_load", po)

\* update(): the second load, and the assignment of the three fields
update_load(p) ==
    /\ pc[p] = "update_load"
    /\ LET l == load_posts(storage) IN
       IF l.raised # ""
       THEN /\ Return(p, Unhandled(l.raised), <<>>, <<>>, NoWrite)
            /\ UNCHANGED <<storage, lastWrite>>
       ELSE GotoSave(p, UpdatePost(l.posts, req[p].id,
                                   escape(req[p].form.author),
                                   escape(req[p].form.title),
                                   escape(req[p].form.content)),
                     l.posts)

\* like(): the existence check
like(p, post_id) ==
    /\ Admit(p)
    /\ LET r == Req("like", "POST", post_id, NoForm)
           f == fetch_post_by_id(storage, post_id)
       IN  IF f.raised # ""
           THEN ReturnFirst(p, r, Unhandled(f.raised), <<>>, NoPost)
           ELSE IF ~f.found
           THEN ReturnFirst(p, r, Error(404, "Post not found"), <<>>, NoPost)
           ELSE GotoFirst(p, r, "like_load", [found |-> TRUE, post |-> f.post])

\* like(): the second load, and the increment
like_load(p) ==
    /\ pc[p] = "like_load"
    /\ LET l == load_posts(storage) IN
       IF l.raised # ""
       THEN /\ Return(p, Unhandled(l.raised), <<>>, <<>>, NoWrite)
            /\ UNCHANGED <<storage, lastWrite>>
       ELSE GotoSave(p, LikePost(l.posts, req[p].id), l.posts)

\* SaveFailed with the flag of save_posts ignored: the handler redirects
SaveFailed_FlagIgnored(op) == Redirect

\* the message each handler gives when save_posts returns False
SaveFailed(op) ==
    IF op = "add" THEN Error(500, "Failed to save post")
    ELSE Error(500, "Failed to save changes")

\* save_posts(): open('posts.json', 'w') truncates the file, or is refused
save_open(p) ==
    /\ pc[p] = "save_open"
    /\ \/ /\ storage' = File("garbage", <<>>)
          /\ pc' = [pc EXCEPT ![p] = "save_write"]
          /\ last' = NoLast
          /\ UNCHANGED <<req, posts, loaded, post, nreq, initial, pre, alone,
                         prev, lastWrite, addRun>>
       \/ /\ Return(p, SaveFailed(req[p].op), posts[p], loaded[p], NoWrite)
          /\ UNCHANGED <<storage, lastWrite>>

\* save_posts(): json.dump writes the list and the file is closed, or the
\* write fails and leaves the file partly written.  The file is kept as
\* json.load reads it, which for the text json.dump writes is the list
\* itself (WrittenAsHeld below; the conversions are applied literally in
\* store_save_write)
save_write(p) ==
    /\ pc[p] = "save_write"
    /\ \/ /\ storage' = File("list", posts[p])
          /\ lastWrite' = [req |-> req[p], loaded |-> loaded[p]]
          /\ Return(p, Redirect, posts[p], loaded[p],
                    IF lastWrite = [req |-> req[p], loaded |-> loaded[p]]
                    THEN lastWrite ELSE NoWrite)
       \/ /\ storage' = File("garbage", <<>>)
          /\ Return(p, SaveFailed(req[p].op), posts[p], loaded[p], NoWrite)
          /\ UNCHANGED lastWrite

Next ==
    \E p \in Procs :
        \/ index(p)
        \/ \E f \in Forms : add(p, f)
        \/ add_load(p)
        \/ \E i \in ReqIds : delete(p, i)
        \/ delete_load(p)
        \/ \E i \in ReqIds : \E f \in Forms : update(p, i, "POST", f)
        \/ \E i \in ReqIds : update(p, i, "GET", NoForm)
        \/ update_load(p)
        \/ \E i \in ReqIds : like(p, i)
        \/ like_load(p)
        \/ save_open(p)
        \/ save_write(p)

Spec == Init /\ [][Next]_vars

\* ---------------------------------------------------------------------
\* The store on its own: one caller that uses load_posts and save_posts
\* directly, as fetch_post_by_id and the handlers do.  The caller either
\* loads and saves what it loaded, or saves a collection it holds; after
\* a save that succeeded it loads again.  The caller is worker 1; req
\* names what it does, loaded is the collection it passes to save_posts,
\* posts the list the latest load_posts returned.
\* ---------------------------------------------------------------------

\* a post with texts that hold the characters json.dump escapes and with
\* a boolean for likes (isinstance(True, int) holds)
Q(id) ==
    Post(IntV(id), StrV(Str(<<"\"", "q", "\"">>)), StrV(Str(<<"\\", "\"">>)),
         StrV(<<Run("\\", 2), Run("n", 1)>>), BoolV(1))

\* the contents of posts.json the caller may find
StoreFiles ==
    InitFiles \cup
    { File("garbage", <<>>),
      File("nonlist", <<>>),
      File("list", <<Q(7)>>),
      File("list", <<P(120, 45), Q(3), P(-4, -1)>>),
      \* an id that is a boolean
      File("list", <<[P(1, 2) EXCEPT !.id = BoolV(1)], P(0, 0)>>),
      \* likes that are a float
      File("list", <<[P(1, 0) EXCEPT !.likes = FloatV(2)]>>),
      \* a text that is null
      File("list", <<[P(1, 0) EXCEPT !.title = NoneV]>>) }

\* the collections that pass the validation of load_posts
Collections ==
    {DefaultPosts} \cup
    { f.items : f \in { g \in StoreFiles :
                          g.kind = "list" /\ ValidatePosts(g.items) = "ok" } }

StoreInit ==
    /\ storage \in StoreFiles
    /\ initial = storage
    /\ \/ /\ pc = [p \in Procs |-> IF p = 1 THEN "load" ELSE "done"]
          /\ req = [p \in Procs |->
                      IF p = 1 THEN Req("load_save", "", 0, NoForm) ELSE NoReq]
          /\ loaded = [p \in Procs |-> <<>>]
       \/ /\ pc = [p \in Procs |-> IF p = 1 THEN "save_open" ELSE "done"]
          /\ req = [p \in Procs |->
                      IF p = 1 THEN Req("save", "", 0, NoForm) ELSE NoReq]
          /\ \E c \in Collections :
                loaded = [p \in Procs |-> IF p = 1 THEN c ELSE <<>>]
    /\ posts = [p \in Procs |-> <<>>]
    /\ post = [p \in Procs |-> NoPost]
    /\ nreq = 0
    /\ pre = [p \in Procs |-> NoFile]
    /\ alone = [p \in Procs |-> FALSE]
    /\ prev = [p \in Procs |-> NoPrev]
    /\ lastWrite = NoWrite
    /\ last = NoLast
    /\ addRun = -1

\* the caller goes on to the given place with the given lists
StoreGoto(label, ld, ps) ==
    /\ pc' = [pc EXCEPT ![1] = label]
    /\ loaded' = [loaded EXCEPT ![1] = ld]
    /\ posts' = [posts EXCEPT ![1] = ps]
    /\ UNCHANGED <<req, post, nreq, initial, pre, alone, prev, lastWrite,
                   last, addRun>>

\* load_posts(), the first one: an exception ends the caller
store_load ==
    /\ pc[1] = "load"
    /\ UNCHANGED storage
    /\ LET l == load_posts(storage) IN
       IF l.raised # "" THEN StoreGoto("raised", <<>>, <<>>)
       ELSE StoreGoto("save_open", l.posts, l.posts)

\* save_posts(loaded): open('posts.json', 'w') truncates the file, or is
\* refused and save_posts returns False
store_save_open ==
    /\ pc[1] = "save_open"
    /\ \/ /\ storage' = File("garbage", <<>>)
          /\ StoreGoto("save_write", loaded[1], posts[1])
       \/ /\ UNCHANGED storage
          /\ StoreGoto("save_failed", loaded[1], posts[1])

\* save_posts(loaded): json.dump writes the text and save_posts returns
\* True, or the write fails and save_posts returns False
store_save_write ==
    /\ pc[1] = "save_write"
    /\ \/ /\ storage' = File("list", json_load(json_dump(loaded[1])))
          /\ StoreGoto("reload", loaded[1], posts[1])
       \/ /\ storage' = File("garbage", <<>>)
          /\ StoreGoto("save_failed", loaded[1], posts[1])

\* load_posts() after the save
store_reload ==
    /\ pc[1] = "reload"
    /\ UNCHANGED storage
    /\ LET l == load_posts(storage) IN
       IF l.raised # "" THEN StoreGoto("reload_raised", loaded[1], <<>>)
       ELSE StoreGoto("reloaded", loaded[1], l.posts)

StoreNext ==
    \/ store_load
    \/ store_save_open
    \/ store_save_write
    \/ store_reload

SpecStore == StoreInit /\ [][StoreNext]_vars

\* ---------------------------------------------------------------------
\* validate_post_data on its own: one call with three texts, the empty
\* text and texts at and just over each cap among them.  The caller is
\* worker 1, req holds the arguments, last the value returned.
\* ---------------------------------------------------------------------

\* texts of 0, 1, cap and cap + 1 characters; the text of cap characters
\* holds an entity as html.escape writes it
TextsAround(cap) ==
    { <<>>,
      Str(<<"a">>),
      <<Run("&", 1), Run("amp;", 1), Run("a", cap - 5)>>,
      <<Run("a", cap), Run("<", 1)>> }

ValidateInit ==
    /\ storage = NoFile
    /\ initial = NoFile
    /\ pc = [p \in Procs |-> IF p = 1 THEN "validate" ELSE "done"]
    /\ \E a \in TextsAround(MaxAuthor), t \in TextsAround(MaxTitle),
          c \in TextsAround(MaxContent) :
          req = [p \in Procs |->
                   IF p = 1 THEN Req("validate", "", 0, Form(a, t, c))
                   ELSE NoReq]
    /\ posts = [p \in Procs |-> <<>>]
    /\ loaded = [p \in Procs |-> <<>>]
    /\ post = [p \in Procs |-> NoPost]
    /\ nreq = 0
    /\ pre = [p \in Procs |-> NoFile]
    /\ alone = [p \in Procs |-> FALSE]
    /\ prev = [p \in Procs |-> NoPrev]
    /\ lastWrite = NoWrite
    /\ last = NoLast
    /\ addRun = -1

\* is_valid, error = validate_post_data(author, title, content)
validate_call ==
    /\ pc[1] = "validate"
    /\ pc' = [pc EXCEPT ![1] = "validated"]
    /\ last' = [last EXCEPT
                  !.req = req[1],
                  !.result = validate_post_data(req[1].form.author,
                                                req[1].form.title,
                                                req[1].form.content)]
    /\ UNCHANGED <<storage, req, posts, loaded, post, nreq, initial, pre,
                   alone, prev, lastWrite, addRun>>

ValidateNext == validate_call

SpecValidate == ValidateInit /\ [][ValidateNext]_vars

\* ---------------------------------------------------------------------
\* Vocabulary of the properties
\* ---------------------------------------------------------------------

\* the ids of a list of posts, in order
IdSeq(items) == [k \in 1..Len(items) |-> items[k].id.i]

DistinctIds(items) ==
    \A j, k \in 1..Len(items) : j # k => items[j].id.i # items[k].id.i

\* a file that holds a collection of posts: a list whose elements are
\* records with text author, title, content and integer id, likes
StructurallyValid(file) ==
    /\ file.kind = "list"
    /\ \A k \in 1..Len(file.items) :
          /\ file.items[k].obj
          /\ file.items[k].author.t = "str"
          /\ file.items[k].title.t = "str"
          /\ file.items[k].content.t = "str"
          /\ file.items[k].id.t = "int"
          /\ file.items[k].likes.t = "int"

\* the collection a file stands for: its posts, or the default set when
\* it is absent or corrupt
Collection(file) ==
    IF StructurallyValid(file) THEN file.items ELSE DefaultPosts

HasId(items, post_id) == \E k \in 1..Len(items) : items[k].id.i = post_id

LikesOf(items, post_id) ==
    items[CHOOSE k \in 1..Len(items) : items[k].id.i = post_id].likes.i

\* no request is in progress
Quiet == \A p \in Procs : pc[p] = "done"

\* a request has just returned that overlapped no other request: the
\* file is as that request left it
Settled == last.alone /\ Quiet

\* a request of this kind has just returned, and it was saved
Saved(op) ==
    /\ last.req.op = op
    /\ last.req.method = "POST"
    /\ last.result = Redirect

\* ---------------------------------------------------------------------
\* C1  Starting from a file that is absent or holds posts with pairwise
\*     distinct ids, the posts in the file have pairwise distinct ids in
\*     every reachable state, whatever the interleaving of the requests.
\* ---------------------------------------------------------------------
C1_UniqueIds ==
    (\/ initial.kind = "absent"
     \/ StructurallyValid(initial) /\ DistinctIds(initial.items))
    => (storage.kind = "list" => DistinctIds(storage.items))

\* two adds that loaded the same list have both been saved
C1_Witness ==
    /\ Saved("add")
    /\ last.over.req.op = "add"
    /\ last.over.loaded = last.loaded
    /\ initial.kind = "absent"
    /\ storage.kind = "list" /\ Len(storage.items) = 3

\* ---------------------------------------------------------------------
\* C2  (as claimed) After n >= 1 successful adds in a row, with nothing
\*     else in between, from an empty store (a file holding the empty
\*     list, or no file at all), the file holds exactly n posts with ids
\*     1, ..., n in creation order.
\* ---------------------------------------------------------------------
C2_AsClaimed ==
    (/\ addRun >= 1 /\ Quiet
     /\ initial \in {File("list", <<>>), File("absent", <<>>)})
    => /\ storage.kind = "list"
       /\ IdSeq(storage.items) = [k \in 1..addRun |-> k]

\* C2  (amended) From a file holding the empty list the ids are 1, ..., n
\*     in creation order; from no file at all the file holds the two
\*     default posts (ids 1 and 2) followed by the n new posts with ids
\*     3, ..., n + 2 in creation order.
C2_IdsAfterAdds ==
    /\ (addRun >= 1 /\ Quiet /\ initial = File("list", <<>>))
       => /\ storage.kind = "list"
          /\ IdSeq(storage.items) = [k \in 1..addRun |-> k]
          /\ \A k \in 1..addRun : storage.items[k].likes = IntV(0)
    /\ (addRun >= 1 /\ Quiet /\ initial = File("absent", <<>>))
       => /\ storage.kind = "list"
          /\ IdSeq(storage.items) = [k \in 1..(addRun + 2) |-> k]
          /\ SubSeq(storage.items, 1, 2) = DefaultPosts

C2_Witness ==
    /\ addRun >= 2 /\ Quiet
    /\ initial = File("absent", <<>>)
    /\ storage.kind = "list"

\* ---------------------------------------------------------------------
\* C3  load never fails: a request that only lists the posts ends without
\*     an exception and shows the posts of the file when the file is
\*     structurally valid, and exactly the two default posts for every
\*     other condition of the file.
\* ---------------------------------------------------------------------
C3_LoadNeverFails ==
    last.req.op = "index"
    => /\ last.result.raised = ""
       /\ last.result = Render("index.html")
       /\ last.posts = Collection(last.pre)

\* ---------------------------------------------------------------------
\* C4  When update, delete or like is invoked with an id that is not in
\*     the collection the file stands for, the request ends at its
\*     existence check with "Post not found" (404): it does not go on to
\*     load the list and save it, and when nothing else is going on the
\*     file is as the request found it; for update this is so whatever
\*     the submitted fields are.
\* ---------------------------------------------------------------------
C4_NotFound ==
    /\ \A p \in Procs :
          (pc[p] # "done" /\ req[p].op \in {"delete", "update", "like"})
          => HasId(Collection(pre[p]), req[p].id)
    /\ (/\ last.req.op \in {"delete", "update", "like"}
        /\ ~HasId(Collection(last.pre), last.req.id))
       => /\ last.result = Error(404, "Post not found")
          /\ last.posts = <<>> /\ last.loaded = <<>>
          /\ Settled => storage = last.pre

\* ---------------------------------------------------------------------
\* C5  When add, or update of a post that exists, is submitted with an
\*     empty field or a field over its length cap, the request ends at
\*     its validation with a validation error (400): it does not go on to
\*     load the list and save it, and when nothing else is going on the
\*     file is as the request found it.
\* ---------------------------------------------------------------------
InvalidForm(f) ==
    \/ f.author = <<>> \/ f.title = <<>> \/ f.content = <<>>
    \/ TextLen(f.author) > 100
    \/ TextLen(f.title) > 200
    \/ TextLen(f.content) > 10000

C5_ValidationError ==
    /\ \A p \in Procs :
          (pc[p] # "done" /\ req[p].method = "POST"
           /\ req[p].op \in {"add", "update"})
          => ~InvalidForm(req[p].form)
    /\ (/\ last.req.method = "POST"
        /\ InvalidForm(last.req.form)
        /\ \/ last.req.op = "add"
           \/ /\ last.req.op = "update"
              /\ HasId(Collection(last.pre), last.req.id))
       => /\ last.result.status = 400
          /\ last.result.message \in {"All fields are required.",
                                      "Input exceeds maximum length."}
          /\ last.posts = <<>> /\ last.loaded = <<>>
          /\ Settled => storage = last.pre

\* ---------------------------------------------------------------------
\* C6  Lost update.  When a like has been saved over the save of another
\*     like of the same post, both having loaded the same list and both
\*     answered with the redirect, the file holds the likes of the loaded
\*     list plus 1, not plus 2.  A like served alone right after another
\*     like of the same post adds 1 to the likes it found.
\* ---------------------------------------------------------------------
LostUpdate ==
    /\ Saved("like")
    /\ last.over.req = last.req
    /\ last.over.loaded = last.loaded
    /\ HasId(last.loaded, last.req.id)
    /\ storage = File("list", last.posts)

C6_LostUpdate ==
    /\ LostUpdate
       => LikesOf(storage.items, last.req.id)
             = LikesOf(last.loaded, last.req.id) + 1
    /\ (/\ Saved("like") /\ Settled
        /\ last.prev = [req |-> last.req, status |-> 302])
       => /\ storage.kind = "list" /\ last.pre.kind = "list"
          /\ LikesOf(storage.items, last.req.id)
                = LikesOf(last.pre.items, last.req.id) + 1

C6_Witness ==
    /\ LostUpdate
    /\ Quiet
    /\ StructurallyValid(initial)
    /\ last.loaded = initial.items
    /\ LikesOf(storage.items, last.req.id)
          = LikesOf(initial.items, last.req.id) + 1

\* ---------------------------------------------------------------------
\* C7  A like of an existing post, served alone and saved, leaves in the
\*     file the collection it found with the likes of the post with that
\*     id raised by exactly 1: same number and order of posts, the other
\*     fields of the post and all other posts unchanged.
\* ---------------------------------------------------------------------
C7_LikeFrame ==
    (Saved("like") /\ Settled)
    => LET old == Collection(last.pre) IN
       /\ storage.kind = "list"
       /\ Len(storage.items) = Len(old)
       /\ HasId(old, last.req.id)
       /\ \A k \in 1..Len(old) :
             storage.items[k] =
                IF old[k].id.i = last.req.id
                THEN [old[k] EXCEPT !.likes = IntV(old[k].likes.i + 1)]
                ELSE old[k]

C7_Witness ==
    /\ Saved("like") /\ Settled
    /\ StructurallyValid(last.pre)
    /\ Len(last.pre.items) >= 2
    /\ last.pre.items[1].id.i # last.req.id
    /\ storage.kind = "list"

\* ---------------------------------------------------------------------
\* C8  A delete of an existing id, served alone and saved, leaves in the
\*     file the collection it found without the one post with that id,
\*     the others unchanged and in the same order; a delete of the same
\*     id served right after it answers "Post not found" and leaves the
\*     file as it is.
\* ---------------------------------------------------------------------
C8_DeleteExactlyOne ==
    /\ (Saved("delete") /\ Settled)
       => LET old == Collection(last.pre) IN
          \E k \in 1..Len(old) :
             /\ old[k].id.i = last.req.id
             /\ storage = File("list", SubSeq(old, 1, k - 1)
                                       \o SubSeq(old, k + 1, Len(old)))
    /\ (/\ last.req.op = "delete" /\ Settled
        /\ last.prev = [req |-> last.req, status |-> 302])
       => /\ last.result = Error(404, "Post not found")
          /\ storage = last.pre

C8_Witness ==
    /\ last.req.op = "delete" /\ Settled
    /\ last.prev = [req |-> last.req, status |-> 302]
    /\ last.result.status = 404
    /\ storage.kind = "list" /\ Len(storage.items) = 2
    /\ Len(initial.items) = 3

\* ---------------------------------------------------------------------
\* C9  An update that reaches its save has changed, in the list it
\*     loaded, only the author, title and content of the post with the
\*     given id: ids, likes, number and order of the posts and every
\*     other post are as loaded.  Served alone and saved, it leaves
\*     exactly that list in the file, the loaded list being the
\*     collection it found.  Update and like never change the sequence of
\*     ids of the list they loaded.
\* ---------------------------------------------------------------------
OnlyTextsChanged(ps, ld, r) ==
    /\ Len(ps) = Len(ld)
    /\ \A k \in 1..Len(ld) :
          /\ ps[k].id = ld[k].id
          /\ ps[k].likes = ld[k].likes
          /\ ps[k].obj = ld[k].obj
          /\ IF ld[k].id.i = r.id
             THEN /\ ps[k].author = StrV(escape(r.form.author))
                  /\ ps[k].title = StrV(escape(r.form.title))
                  /\ ps[k].content = StrV(escape(r.form.content))
             ELSE ps[k] = ld[k]

C9_UpdateFrame ==
    /\ \A p \in Procs :
          pc[p] \in {"save_open", "save_write"}
          => /\ req[p].op = "update"
                => OnlyTextsChanged(posts[p], loaded[p], req[p])
             /\ req[p].op \in {"update", "like"}
                => IdSeq(posts[p]) = IdSeq(loaded[p])
    /\ Saved("update") => OnlyTextsChanged(last.posts, last.loaded, last.req)
    /\ (Saved("update") \/ Saved("like"))
       => IdSeq(last.posts) = IdSeq(last.loaded)
    /\ (Saved("update") /\ Settled)
       => /\ storage = File("list", last.posts)
          /\ last.loaded = Collection(last.pre)
          /\ HasId(last.loaded, last.req.id)

C9_Witness ==
    /\ Saved("update") /\ Settled
    /\ StructurallyValid(last.pre)
    /\ Len(last.pre.items) >= 2
    /\ LikesOf(last.pre.items, last.req.id) > 0
    /\ storage # last.pre
    /\ storage.kind = "list"

\* ---------------------------------------------------------------------
\* C10 load writes nothing, and from an absent or corrupt file it gives
\*     the two default posts every time: a listing, or the fetch of a
\*     post for the update form, on such a file answers from the default
\*     set, also when the same request came right before it, and when
\*     nothing else is going on the file is exactly as it was.
\* ---------------------------------------------------------------------
AbsentOrCorrupt(file) ==
    \/ file.kind \in {"absent", "garbage", "nonlist"}
    \/ file.kind = "list" /\ ~StructurallyValid(file)

C10_FallbackIdempotent ==
    /\ (last.req.op = "index" /\ AbsentOrCorrupt(last.pre))
       => /\ last.posts = DefaultPosts
          /\ Settled => storage = last.pre
    /\ (/\ last.req.op = "update" /\ last.req.method = "GET"
        /\ AbsentOrCorrupt(last.pre))
       => /\ Settled => storage = last.pre
          /\ IF HasId(DefaultPosts, last.req.id)
             THEN /\ last.post.found
                  /\ last.post.post \in {DefaultPosts[1], DefaultPosts[2]}
                  /\ last.post.post.id.i = last.req.id
             ELSE last.result = Error(404, "Post not found")

\* ---------------------------------------------------------------------
\* C11 Round trip (under SpecStore).  When save_posts has succeeded, the
\*     load that follows does not raise and returns exactly the collection
\*     that was passed to save_posts: same posts in the same order, every
\*     field with its value and type.  This is so when the collection is
\*     what load_posts returned on the file as it was found, whatever
\*     that file was, and when it is any collection that passes the
\*     validation of load_posts.
\* ---------------------------------------------------------------------
C11_RoundTrip ==
    /\ pc[1] # "reload_raised"
    /\ pc[1] = "reloaded"
       => /\ posts[1] = loaded[1]
          /\ storage = File("list", loaded[1])
          /\ req[1].op = "load_save"
             => loaded[1] = load_posts(initial).posts
          /\ req[1].op = "save" => loaded[1] \in Collections

\* a file with quotes and backslashes in its texts, a boolean, negative
\* and many-digit numbers has been loaded, saved and loaded again
C11_Witness ==
    /\ pc[1] = "reloaded"
    /\ req[1].op = "load_save"
    /\ initial = File("list", <<P(120, 45), Q(3), P(-4, -1)>>)
    /\ posts[1] = initial.items

\* ---------------------------------------------------------------------
\* C12 Write failure.  The requests that save
\* ---------------------------------------------------------------------
Mutations == {"add", "delete", "update", "like"}

\* the latest request that returned had come to its save (it had loaded
\* the list and changed it), it ran alone and nothing has arrived since
SettledAfterSave ==
    /\ Settled
    /\ last.req.op \in Mutations /\ last.req.method = "POST"
    /\ last.posts # <<>> \/ last.loaded # <<>>

\* the latest request reported the failure of its save
ReportedSaveFailure ==
    /\ last.result.status = 500
    /\ last.result.raised = ""
    /\ last.result.body = "error.html"
    /\ last.result.message \in {"Failed to save post", "Failed to save changes"}

\* C12 (as claimed) A request whose save failed reports the persistence
\*     failure, and the list it tried to save is not what a later load
\*     returns.
C12_AsClaimed ==
    (SettledAfterSave /\ last.result # Redirect /\ last.posts # last.loaded)
    => /\ ReportedSaveFailure
       /\ load_posts(storage).posts # last.posts

\* C12 (amended) A request that came to its save either succeeded
\*     (redirect, the file holds its list) or reports the persistence
\*     failure (500 with a message of its own, no exception), and then it
\*     has not written its list: either the open was refused and the file
\*     is as the request found it, or the write failed after the open had
\*     truncated the file, the file is no JSON document and every later
\*     load returns the two default posts, whatever the file held before
\*     and whatever the request tried to save.  No other outcome reports
\*     the persistence failure.
C12_SaveFailure ==
    /\ SettledAfterSave
       => \/ /\ last.result = Redirect
             /\ storage = File("list", last.posts)
          \/ /\ ReportedSaveFailure
             /\ last.result = SaveFailed(last.req.op)
             /\ \/ storage = last.pre
                \/ /\ storage = File("garbage", <<>>)
                   /\ load_posts(storage) = [raised |-> "", posts |-> DefaultPosts]
    /\ (Settled /\ last.result.status = 500 /\ last.result.raised = "")
       => SettledAfterSave
    /\ \A p \in Procs :
          pc[p] \in {"save_open", "save_write"} => req[p].op \in Mutations

\* a delete of post 3 whose write failed after the truncation: the three
\* posts of the file are lost and later loads return the defaults
C12_Witness ==
    /\ SettledAfterSave
    /\ ReportedSaveFailure
    /\ last.req.op = "delete"
    /\ last.pre = File("list", <<P(1, 0), P(2, 0), P(3, 0)>>)
    /\ storage = File("garbage", <<>>)
    /\ load_posts(storage).posts = DefaultPosts

\* ---------------------------------------------------------------------
\* C13 validate (under SpecValidate).  validate_post_data returns valid
\*     exactly when the three texts are non-empty and author has at most
\*     100, title at most 200 and content at most 10000 characters; a
\*     text of exactly the cap is valid and one more character is not;
\*     with an empty text the answer is "All fields are required.", also
\*     when another text is over its cap; otherwise a text over its cap
\*     gives "Input exceeds maximum length.".
\* ---------------------------------------------------------------------
C13_Validate ==
    pc[1] = "validated"
    => LET f == last.req.form
           empty == f.author = <<>> \/ f.title = <<>> \/ f.content = <<>>
           within == /\ TextLen(f.author) <= 100
                     /\ TextLen(f.title) <= 200
                     /\ TextLen(f.content) <= 10000
       IN  /\ last.result.ok <=> (~empty /\ within)
           /\ last.result.ok => last.result.error = ""
           /\ empty => last.result.error = "All fields are required."
           /\ (~empty /\ ~within)
              => last.result.error = "Input exceeds maximum length."

\* the three texts are exactly at their caps and the answer is valid
C13_Witness ==
    /\ pc[1] = "validated"
    /\ TextLen(last.req.form.author) = 100
    /\ TextLen(last.req.form.title) = 200
    /\ TextLen(last.req.form.content) = 10000
    /\ last.result = [ok |-> TRUE, error |-> ""]

\* ---------------------------------------------------------------------
\* C14 Under any interleaving, a request that reports success has made
\*     its change: a like that redirects has saved the list it loaded
\*     with the likes of its target raised by 1, an update that redirects
\*     has saved it with the three texts of its target set, and a delete
\*     that redirects has loaded a list that held its target and saved
\*     it without the target.
\* ---------------------------------------------------------------------
TargetOf(items, post_id) == items[FirstWithId(items, post_id)]

C14_ChangeApplied ==
    /\ Saved("like")
       => /\ HasId(last.loaded, last.req.id)
          /\ LikesOf(last.posts, last.req.id)
                = LikesOf(last.loaded, last.req.id) + 1
    /\ Saved("update")
       => /\ HasId(last.loaded, last.req.id)
          /\ LET t == TargetOf(last.posts, last.req.id) IN
             /\ t.author = StrV(escape(last.req.form.author))
             /\ t.title = StrV(escape(last.req.form.title))
             /\ t.content = StrV(escape(last.req.form.content))
    /\ Saved("delete")
       => /\ HasId(last.loaded, last.req.id)
          /\ ~HasId(last.posts, last.req.id)

\* ---------------------------------------------------------------------
\* C15 Every list a handler passes to save_posts passes the validation of
\*     load_posts (every element a post with text author, title and
\*     content and integer id and likes), its ids are >= 1 and its likes
\*     >= 0 when those of the list it loaded were, and json.dump writes
\*     it as a text json.load reads back to the same list.  So when a
\*     request has saved and redirected and no save is between its open
\*     and its write, posts.json holds the saved list and a load returns
\*     exactly that list, not the default posts; this is so under every
\*     interleaving of the requests.
\* ---------------------------------------------------------------------
ProperNumbers(items) ==
    \A k \in 1..Len(items) : items[k].id.i >= 1 /\ items[k].likes.i >= 0

WrittenAsHeld(items) == json_load(json_dump(items)) = items

C16_MutationOnFallback ==
    (/\ Settled
     /\ AbsentOrCorrupt(last.pre)
     /\ last.req.op \in Mutations /\ last.req.method = "POST")
    => LET id == last.req.id
           f  == last.req.form
       IN  /\ Saved("add")
              => storage = File("list",
                    <<DefaultPosts[1], DefaultPosts[2],
                      Post(IntV(3), StrV(escape(f.author)),
                           StrV(escape(f.title)), StrV(escape(f.content)),
                           IntV(0))>>)
           /\ last.req.op # "add" /\ last.result = Redirect => id \in {1, 2}
           /\ Saved("like")
              => storage = File("list",
                    [DefaultPosts EXCEPT ![id].likes = IntV(1)])
           /\ Saved("update")
              => storage = File("list",
                    [DefaultPosts EXCEPT
                        ![id].author = StrV(escape(f.author)),
                        ![id].title = StrV(escape(f.title)),
                        ![id].content = StrV(escape(f.content))])
           /\ Saved("delete")
              => storage = File("list", <<DefaultPosts[3 - id]>>)
           /\ (last.req.op # "add" /\ id \notin {1, 2})
              => /\ last.result = Error(404, "Post not found")
                 /\ storage = last.pre

\* ---------------------------------------------------------------------
\* C17 The id add assigns
\* ---------------------------------------------------------------------

\* the largest id of a list, 0 for the empty list
Largest(items) ==
    IF items = <<>> THEN 0
    ELSE CHOOSE m \in {items[k].id.i : k \in 1..Len(items)} :
            \A k \in 1..Len(items) : items[k].id.i <= m

\* ps is ld with one post appended: its id 1 + the largest of ld, its
\* likes 0, its texts the escaped fields of the form r
Added(ps, ld, r) ==
    /\ Len(ps) = Len(ld) + 1
    /\ SubSeq(ps, 1, Len(ld)) = ld
    /\ ps[Len(ps)] = Post(IntV(Largest(ld) + 1),
                          StrV(escape(r.form.author)),
                          StrV(escape(r.form.title)),
                          StrV(escape(r.form.content)), IntV(0))

\* the latest request was an add, saved, served alone right after a
\* delete that was saved and that removed the post with the highest id
AddAfterDeleteOfHighest ==
    /\ Saved("add") /\ last.alone
    /\ last.prev.status = 302 /\ last.prev.req.op = "delete"
    /\ last.prev.req.id > Largest(last.loaded)

\* C17 (as claimed) The new post has 1 + the largest loaded id (1 for the
\*     empty list) and likes 0, it comes after the loaded posts, which
\*     are unchanged; and an add right after the delete of the post with
\*     the highest id assigns the id of the deleted post again.
C17_AsClaimed ==
    /\ Saved("add") => Added(last.posts, last.loaded, last.req)
    /\ AddAfterDeleteOfHighest
       => last.posts[Len(last.posts)].id.i = last.prev.req.id

\* C17 (amended) The new post has 1 + the largest loaded id (1 for the
\*     empty list) and likes 0, it comes after the loaded posts, which
\*     are unchanged, in every add that comes to its save and in the file
\*     when the add is served alone; an add right after the delete of the
\*     post with the highest id assigns 1 + the largest id that is left:
\*     never more than the id of the deleted post, and that id again
\*     exactly when the id just below it is still stored (or it was 1 and
\*     nothing is left).
C17_IdAssignment ==
    /\ \A p \in Procs :
          (req[p].op = "add" /\ pc[p] \in {"save_open", "save_write"})
          => Added(posts[p], loaded[p], req[p])
    /\ Saved("add") => Added(last.posts, last.loaded, last.req)
    /\ (Saved("add") /\ Settled)
       => /\ storage = File("list", last.posts)
          /\ last.loaded = Collection(last.pre)
    /\ AddAfterDeleteOfHighest
       => LET new == last.posts[Len(last.posts)].id.i
              d   == last.prev.req.id
          IN  /\ new = Largest(last.loaded) + 1
              /\ new <= d
              /\ new = d <=> Largest(last.loaded) = d - 1

\* post 3 was deleted from posts 1, 2, 3 and the add that followed has
\* given id 3 again
C17_Witness ==
    /\ AddAfterDeleteOfHighest /\ Settled
    /\ initial = File("list", <<P(1, 0), P(2, 0), P(3, 0)>>)
    /\ last.prev.req.id = 3
    /\ IdSeq(storage.items) = <<1, 2, 3>>
    /\ storage.items[3].author = StrV(escape(last.req.form.author))

====
